---- MODULE Spec2Model ----
(***************************************************************************)
(* A model of DESC's neoclassical-transport code:                          *)
(*   src/desc/compute/_neoclassical.py     the registered compute functions *)
(*       _fieldline_length, _epsilon_32 (with dH, dI, eps_32), _compute,    *)
(*       _alpha_mean, _effective_ripple                                     *)
(*   src/desc/objectives/_neoclassical.py  the objectives EffectiveRipple   *)
(*       and GammaC (__init__, build, compute)                              *)
(*                                                                         *)
(* Floating-point numbers are fixed-point numbers of resolution 1/Scale,   *)
(* with the two non-finite values NaN and Inf.  Code of the repository     *)
(* that is not part of the two files above (Bounce1D, safediv, the grid,   *)
(* the compute framework) is modelled from the specification text.         *)
(***************************************************************************)
EXTENDS Integers, Sequences, FiniteSets, TLC

VARIABLES
    obj,      \* the objective instance: its class and attributes
    pc,       \* where the objective's life cycle / the running compute call is
    params,   \* the params argument of the running (or last) compute call
    grid,     \* the (rho, alpha, zeta) grid the running compute call built
    data,     \* the data dict of the running (or last) compute call
    kwargs,   \* the keyword arguments of the running (or last) compute call
    result,   \* what the last completed compute call returned, <<>> if it raised
    err,      \* the error the last build or compute call raised, "none" if none
    first,    \* <<>>, or the params and the outcome of the first compute call
              \* that a built objective completed
    calls     \* how many compute calls have been started

vars == <<obj, pc, params, grid, data, kwargs, result, err, first, calls>>

(***************************************************************************)
(* Bounds of the model.                                                    *)
(***************************************************************************)
MaxRho == 2        \* flux-surface labels are 1..MaxRho
NumAlpha == 2      \* field lines per flux surface
NumZeta == 5       \* knots along each field line
MaxNumPitch == 2   \* num_pitch ranges over 1..MaxNumPitch
MaxNumWell == 2    \* num_well ranges over None and 1..MaxNumWell
MaxAmp == 2        \* ripple amplitude of the equilibrium, in half units
MaxCalls == 2      \* compute calls per objective

(***************************************************************************)
(* Fixed-point floats.  A float is <<"fin", x>> for the number x / Scale,  *)
(* or NaN, or Inf (the sign of an infinity is not kept).                   *)
(***************************************************************************)
Scale == 10 * 10
Half == Scale \div 2

Fin(x) == <<"fin", x>>
NaN == <<"nan", 0>>
Inf == <<"inf", 0>>
Zero == Fin(0)
One == Fin(Scale)
IsFin(a) == a[1] = "fin"
IsNaN(a) == a[1] = "nan"
IsInf(a) == a[1] = "inf"

Abs(x) == IF x < 0 THEN -x ELSE x
Sgn(x) == IF x < 0 THEN -1 ELSE IF x > 0 THEN 1 ELSE 0
Max2(x, y) == IF x >= y THEN x ELSE y
Min2(x, y) == IF x <= y THEN x ELSE y

\* The largest r in lo..hi with r^k <= n (k = 2 or 3), by bisection.
RECURSIVE RootBisect(_, _, _, _)
RootBisect(n, k, lo, hi) ==
    IF lo >= hi THEN lo
    ELSE LET m == (lo + hi + 1) \div 2
             mk == IF k = 2 THEN m * m ELSE m * m * m
         IN  IF mk <= n THEN RootBisect(n, k, m, hi)
             ELSE RootBisect(n, k, lo, m - 1)

FAdd(a, b) ==
    IF IsNaN(a) \/ IsNaN(b) THEN NaN
    ELSE IF IsInf(a) \/ IsInf(b) THEN Inf
    ELSE Fin(a[2] + b[2])

FNeg(a) == IF IsFin(a) THEN Fin(-a[2]) ELSE a

FSub(a, b) == FAdd(a, FNeg(b))

FMul(a, b) ==
    IF IsNaN(a) \/ IsNaN(b) THEN NaN
    ELSE IF IsInf(a) \/ IsInf(b)
         THEN IF a = Zero \/ b = Zero THEN NaN ELSE Inf
    ELSE Fin(Sgn(a[2]) * Sgn(b[2]) * ((Abs(a[2]) * Abs(b[2])) \div Scale))

\* IEEE division: 0/0 = NaN, x/0 = Inf, x/Inf = 0.
FDiv(a, b) ==
    IF IsNaN(a) \/ IsNaN(b) THEN NaN
    ELSE IF IsInf(a) THEN (IF IsInf(b) THEN NaN ELSE Inf)
    ELSE IF IsInf(b) THEN Zero
    ELSE IF b = Zero THEN (IF a = Zero THEN NaN ELSE Inf)
    ELSE Fin(Sgn(a[2]) * Sgn(b[2]) * ((Abs(a[2]) * Scale) \div Abs(b[2])))

FAbs(a) == IF IsFin(a) THEN Fin(Abs(a[2])) ELSE a

FSqrt(a) ==
    IF IsNaN(a) THEN NaN
    ELSE IF IsInf(a) THEN Inf
    ELSE IF a[2] < 0 THEN NaN
    ELSE Fin(RootBisect(a[2] * Scale, 2, 0, 46340))

\* a ** (-3)
FPowM3(a) == FDiv(One, FMul(FMul(a, a), a))

\* a ** 3
FPow3(a) == FMul(FMul(a, a), a)

\* a ** (2 / 3): NaN for a negative base, as a float power is.
FPow23(a) ==
    IF IsNaN(a) THEN NaN
    ELSE IF IsInf(a) THEN Inf
    ELSE IF a[2] < 0 THEN NaN
    ELSE LET c == Fin(RootBisect(a[2] * Scale * Scale, 3, 0, 1290))
         IN  FMul(c, c)

\* a ** (3 / 2), the inverse of FPow23 up to rounding
FPow32(a) == FMul(a, FSqrt(a))

\* Arrays and dicts are values, evaluated once when they are made
Arr(f) == f \o <<>>
Dict(f) == f @@ [k \in {} |-> 0]

RECURSIVE FSum(_)
FSum(s) == IF s = <<>> THEN Zero ELSE FAdd(Head(s), FSum(Tail(s)))

\* jnp.mean of a sequence of floats
FMean(s) == FDiv(FSum(s), Fin(Len(s) * Scale))

(***************************************************************************)
(* The grid: a meshgrid over (rho, alpha, zeta).  A grid array is a        *)
(* sequence over the nodes; the node of (alpha a, rho r, zeta z), each an  *)
(* index into the grid's coordinate lists, has alpha varying fastest and   *)
(* zeta slowest.                                                           *)
(***************************************************************************)
Grid(rho, alpha, zeta) == [rho |-> rho, alpha |-> alpha, zeta |-> zeta]
num_rho(g) == Len(g.rho)
num_alpha(g) == Len(g.alpha)
num_zeta(g) == Len(g.zeta)
num_nodes(g) == num_rho(g) * num_alpha(g) * num_zeta(g)
Node(g, a, r, z) == 1 + (a - 1) + num_alpha(g) * ((r - 1) + num_rho(g) * (z - 1))
NodeAlpha(g, n) == 1 + ((n - 1) % num_alpha(g))
NodeRho(g, n) == 1 + (((n - 1) \div num_alpha(g)) % num_rho(g))
NodeZeta(g, n) == 1 + ((n - 1) \div (num_alpha(g) * num_rho(g)))

\* grid.compress(x): one value per flux surface, in the order of grid.rho
compress(g, x) == Arr([r \in 1..num_rho(g) |-> x[Node(g, 1, r, 1)]])

\* grid.expand(v): the per-surface values gathered back onto every node
expand(g, v) == Arr([n \in 1..num_nodes(g) |-> v[NodeRho(g, n)]])

\* grid.meshgrid_reshape(x, "arz"): indexed [alpha][rho][zeta]
meshgrid_reshape(g, x) ==
    Arr([a \in 1..num_alpha(g) |->
        Arr([r \in 1..num_rho(g) |->
            Arr([z \in 1..num_zeta(g) |-> x[Node(g, a, r, z)]])])])

\* grid.copy_data_from_other(x, other): radial data of grid `other` put on g
copy_data_from_other(g, x, other) ==
    Arr([n \in 1..num_nodes(g) |-> x[Node(other, 1, NodeRho(g, n), 1)]])

(***************************************************************************)
(* The equilibrium.  params is the vector of its degrees of freedom: the   *)
(* ripple amplitude amp and the shape of |B| along a field line.  On the   *)
(* flux surface of label s the field strength ranges over                  *)
(* [BMid - A/2, BMid + A/2] with A = SurfAmp(p, s); A = 0 is a surface of  *)
(* uniform field strength.                                                 *)
(***************************************************************************)
Shapes == {"deep", "touch", "flat"}
ParamSet == [amp : 0..MaxAmp, shape : Shapes]

BMid == 2 * Scale
SurfAmp(p, s) == Max2(0, p.amp + s - MaxRho)
min_tz_B(p, s) == Fin(BMid - SurfAmp(p, s) * Half)
max_tz_B(p, s) == Fin(BMid + SurfAmp(p, s) * Half)

\* |B| at knot z (1-based) of field line a of surface s: max_tz |B| except at
\* every second knot, where it dips to the surface's minimum ("deep"), to
\* the minimum at the second knot and to the middle at the later ones
\* ("touch"), or not at all ("flat").
ModB(p, s, a, z) ==
    IF (z + a) % 2 = 1
    THEN CASE p.shape = "deep" -> min_tz_B(p, s)
           [] p.shape = "touch" -> IF z = 2 THEN min_tz_B(p, s) ELSE Fin(BMid)
           [] OTHER -> max_tz_B(p, s)
    ELSE max_tz_B(p, s)

kappa_g(p, s, a, z) == Fin((2 * ((z + a + s) % 3) - 1) * Half)
grad_rho(p, s, a, z) == Fin(Scale + ((z + s) % 2) * Half)
avg_grad_rho(p, s) == Fin(Scale + Half \div 2)
\* B^zeta at knot z of field line a of surface s: positive, except that the
\* second field line of the "flat" shape runs against zeta
B_sup_zeta(p, s, a, z) ==
    IF p.shape = "flat" /\ a = 2 THEN Fin(-(s * Half))
    ELSE Fin(Scale + ((a + z) % 2) * Scale)
iota(p, s) == Fin(s * Half)
R0(p) == Fin(Scale + p.amp * Half)

(***************************************************************************)
(* Dicts (data, kwargs, constants) are functions on strings.               *)
(***************************************************************************)
None == <<>>
Some(v) == <<v>>
Get(d, k, default) == IF k \in DOMAIN d THEN d[k] ELSE default
Put(d, k, v) == Dict([x \in (DOMAIN d) \cup {k} |-> IF x = k THEN v ELSE d[x]])
Pop(d, k) == Dict([x \in (DOMAIN d) \ {k} |-> d[x]])

(***************************************************************************)
(* desc.utils.safediv and desc.integrals (Bounce1D, chebgauss2): code of   *)
(* the repository outside the two files, modelled from the specification.  *)
(***************************************************************************)
\* safediv(a, b): a / b, and zero where b is zero
safediv(a, b) == IF b = Zero THEN Zero ELSE FDiv(a, b)

\* chebgauss2(n): the canonical quadrature rule of n points, kept as a token
chebgauss2(n) == [rule |-> "chebgauss2", n |-> n]

\* Bounce1D.required_names: what the integrator reads of the data dict
required_names == <<"B^zeta", "|B|">>

\* Bounce1D.reshape_data(grid, f): the field-line layout [alpha][rho][zeta]
reshape_data(g, f) == meshgrid_reshape(g, f)

\* Bounce1D.get_pitch_inv_quad(min_B, max_B, num_pitch, simp): per surface,
\* num_pitch nodes of the inverse pitch strictly between min_B and max_B and
\* their weights: uniform, or an open Simpson rule with simp.  A surface with
\* max_B <= min_B is a configuration error.
PitchNode(lo, hi, n, i, simp) ==
    IF simp THEN Fin(lo[2] + ((hi[2] - lo[2]) * i) \div (n + 1))
    ELSE Fin(lo[2] + ((hi[2] - lo[2]) * (2 * i - 1)) \div (2 * n))

PitchWeight(lo, hi, n, i, simp) ==
    IF simp
    THEN Fin(((hi[2] - lo[2]) * (IF i % 2 = 1 THEN 4 ELSE 2)) \div (3 * (n + 1)))
    ELSE Fin((hi[2] - lo[2]) \div n)

get_pitch_inv_quad(min_B, max_B, num_pitch, simp) ==
    IF \E r \in DOMAIN min_B : max_B[r][2] <= min_B[r][2]
    THEN [err |-> "ConfigError"]
    ELSE [err |-> "none",
          pitch_inv |-> Arr([r \in DOMAIN min_B |-> Arr([i \in 1..num_pitch |->
                            PitchNode(min_B[r], max_B[r], num_pitch, i, simp)])]),
          weight |-> Arr([r \in DOMAIN min_B |-> Arr([i \in 1..num_pitch |->
                            PitchWeight(min_B[r], max_B[r], num_pitch, i, simp)])])]

\* A well is the range z1..z2 of the knots strictly inside it; a well of
\* zero width and a padding entry hold no knot.
Well(z1, z2) == [z1 |-> z1, z2 |-> z2]
PadWell == Well(0, -1)
Inside(B, p, z) == B[z][2] < p[2]
Tangent(B, p, z) ==
    /\ 1 < z /\ z < Len(B)
    /\ B[z] = p /\ B[z - 1][2] > p[2] /\ B[z + 1][2] > p[2]

RECURSIVE RunEnd(_, _, _)
RunEnd(B, p, z) ==
    IF z < Len(B) /\ Inside(B, p, z + 1) THEN RunEnd(B, p, z + 1) ELSE z

\* The wells of profile B at inverse pitch p from knot z on, in profile
\* order: a run of knots with 1 - pitch * B > 0 between two knots where the
\* particle is reflected, or a knot where the profile touches zero.
RECURSIVE WellsFrom(_, _, _)
WellsFrom(B, p, z) ==
    IF z >= Len(B) THEN <<>>
    ELSE IF Tangent(B, p, z) THEN <<Well(z, z - 1)>> \o WellsFrom(B, p, z + 1)
    ELSE IF Inside(B, p, z) /\ ~Inside(B, p, z - 1)
         THEN LET e == RunEnd(B, p, z)
              IN  IF e < Len(B) THEN <<Well(z, e)>> \o WellsFrom(B, p, e + 1)
                  ELSE <<>>
    ELSE WellsFrom(B, p, z + 1)

AllWells(B, p) == WellsFrom(B, p, 2)

\* The padded size of the list of wells: num_well, or with None as many
\* entries as a profile of this length can hold wells
NumWellSlots(B, num_well) == IF num_well = None THEN Len(B) ELSE num_well[1]

\* bounce.points(pitch_inv, num_well): per pitch node the wells, cut to the
\* first num_well in profile order and padded to a fixed size
PadWells(w, n) == Arr([j \in 1..n |-> IF j <= Len(w) THEN w[j] ELSE PadWell])

points(B, pitch_inv, num_well) ==
    Arr([i \in DOMAIN pitch_inv |->
        PadWells(AllWells(B, pitch_inv[i]), NumWellSlots(B, num_well))])

\* The integrands of src/desc/compute/_neoclassical.py that are handed to
\* bounce.integrate
\* dH(data, B, pitch), the integrand of H
dH(d, B, pitch) ==
    FDiv(FMul(FMul(FSqrt(FAbs(FSub(One, FMul(pitch, B)))),
                   FSub(FDiv(Fin(4 * Scale), FMul(pitch, B)), One)),
              d["|grad(rho)|*kappa_g"]),
         B)

\* dI(data, B, pitch), the integrand of I
dI(d, B, pitch) == FDiv(FSqrt(FAbs(FSub(One, FMul(pitch, B)))), B)

\* integrand(data, B, pitch), for the integrand of name f
integrand(f, d, B, pitch) == IF f = "dH" THEN dH(d, B, pitch) ELSE dI(d, B, pitch)

\* The bounce integral of one integrand over one well: the integrand at the
\* knots inside the well, with the local pitch 1 / pitch_inv, weighted by
\* dzeta / B^zeta
RECURSIVE WellIntegral(_, _, _, _, _, _)
WellIntegral(f, x, name, p, z, z2) ==
    IF z > z2 THEN Zero
    ELSE FAdd(FDiv(integrand(f, [n \in {name} |-> x[name][z]], x["|B|"][z],
                             FDiv(One, p)),
                   x["B^zeta"][z]),
              WellIntegral(f, x, name, p, z + 1, z2))

IntegrateOnePitch(f, x, name, p, wells) ==
    Arr([j \in DOMAIN wells |->
            WellIntegral(f, x, name, p, wells[j].z1, wells[j].z2)])

\* batch = False: the pitch nodes are swept one after the other
RECURSIVE IntegrateSweep(_, _, _, _, _, _)
IntegrateSweep(f, x, name, pitch_inv, pts, i) ==
    IF i > Len(pitch_inv) THEN <<>>
    ELSE <<IntegrateOnePitch(f, x, name, pitch_inv[i], pts[i])>>
         \o IntegrateSweep(f, x, name, pitch_inv, pts, i + 1)

\* bounce.integrate(integrand, pitch_inv, data, name, points, batch): the
\* integrals indexed [pitch][well]
integrate(f, pitch_inv, x, name, pts, batch) ==
    IF batch
    THEN Arr([i \in DOMAIN pitch_inv |->
                 IntegrateOnePitch(f, x, name, pitch_inv[i], pts[i])])
    ELSE IntegrateSweep(f, x, name, pitch_inv, pts, 1)

\* quadax.simpson(y, x): the composite closed Simpson rule over the knots x;
\* with an even number of knots the last interval is a trapezoid
RECURSIVE SimpsonFrom(_, _, _)
SimpsonFrom(y, x, k) ==
    IF k + 2 <= Len(y)
    THEN FAdd(FDiv(FMul(FSub(x[k + 1], x[k]),
                        FAdd(FAdd(y[k], FMul(Fin(4 * Scale), y[k + 1])), y[k + 2])),
                   Fin(3 * Scale)),
              SimpsonFrom(y, x, k + 2))
    ELSE IF k + 1 <= Len(y)
    THEN FDiv(FMul(FSub(x[k + 1], x[k]), FAdd(y[k], y[k + 1])), Fin(2 * Scale))
    ELSE Zero

simpson(y, x) == SimpsonFrom(y, x, 1)

(***************************************************************************)
(* src/desc/compute/_neoclassical.py                                       *)
(***************************************************************************)
DefaultNumQuad == 32
DefaultNumPitch == 50

\* elementwise helpers on grid arrays
ArrMul(x, y) == Arr([n \in DOMAIN x |-> FMul(x[n], y[n])])

\* the mean taken along the other axis
alpha_mean_axis1(f) == Arr([a \in DOMAIN f |-> FMean(f[a])])

\* _alpha_mean(f): f.mean(axis=0), f indexed [alpha][rho]
alpha_mean(f) == Arr([r \in DOMAIN f[1] |-> FMean([a \in DOMAIN f |-> f[a][r]])])

\* the mean stored with its sign
ArrAbs_signed(m) == m

\* _fieldline_length(data, transforms, profiles)
ArrAbs(m) == Arr([r \in DOMAIN m |-> FAbs(m[r])])
SimpsonAlongZeta(y, x) ==
    Arr([a \in DOMAIN y |-> Arr([r \in DOMAIN y[a] |-> simpson(y[a][r], x)])])

fieldline_length(d, g) ==
    Put(d, "fieldline length",
        expand(g, ArrAbs(alpha_mean(
            SimpsonAlongZeta(
                meshgrid_reshape(g, [n \in DOMAIN d["B^zeta"] |->
                                        FDiv(One, d["B^zeta"][n])]),
                g.zeta)))))

\* The bounce integrals H, I of eps_32, indexed [pitch][well]
IntegrateHI(x, pts, batch) ==
    [H |-> integrate("dH", x["pitch_inv"], x, "|grad(rho)|*kappa_g", pts, batch),
     I |-> integrate("dI", x["pitch_inv"], x, "|grad(rho)|*kappa_g", pts, batch)]

\* the cap on the wells not handed over
BounceHI_uncapped(x, quad, num_well, batch) ==
    IntegrateHI(x, points(x["|B|"], x["pitch_inv"], None), batch)

BounceHI(x, quad, num_well, batch) ==
    IntegrateHI(x, points(x["|B|"], x["pitch_inv"], num_well), batch)

\* plain division in place of safediv
WellSum_plain(H, I) == FSum(Arr([j \in DOMAIN H |-> FDiv(FMul(H[j], H[j]), I[j])]))

\* safediv(H**2, I).sum(axis=-1) at one pitch node
WellSum(H, I) == FSum(Arr([j \in DOMAIN H |-> safediv(FMul(H[j], H[j]), I[j])]))

\* the pitch weighting applied to each well before the sum over the wells
PitchSum_wells_outer(x, b) ==
    FSum(Arr([i \in DOMAIN x["pitch_inv"] |->
        FSum(Arr([j \in DOMAIN b.H[i] |->
            FMul(FMul(safediv(FMul(b.H[i][j], b.H[i][j]), b.I[i][j]),
                      FPowM3(x["pitch_inv"][i])),
                 x["pitch_inv weight"][i])]))]))

\* the power of the inverse pitch with the sign of its exponent flipped
PitchSum_cubed(x, b) ==
    FSum(Arr([i \in DOMAIN x["pitch_inv"] |->
             FMul(FMul(WellSum(b.H[i], b.I[i]), FPow3(x["pitch_inv"][i])),
                  x["pitch_inv weight"][i])]))

\* eps_32(data) of one field line, closed over quad, num_well and batch
\* (the return expression of eps_32, given the integrals b = [H, I])
PitchSum(x, b) ==
    FSum(Arr([i \in DOMAIN x["pitch_inv"] |->
             FMul(FMul(WellSum(b.H[i], b.I[i]), FPowM3(x["pitch_inv"][i])),
                  x["pitch_inv weight"][i])]))

\* the sweep keeping the first well only
eps_32_sweep_one_well(x, quad, num_well, batch) ==
    PitchSum(x, BounceHI(x, quad, IF batch THEN num_well ELSE Some(1), batch))

eps_32(x, quad, num_well, batch) == PitchSum(x, BounceHI(x, quad, num_well, batch))

\* The kernels "Gamma_c" and "Gamma_c Velasco" are registered outside the
\* two files; they reuse _compute with integrands the specification does
\* not give.  The well measure I stands for them here; Nemov's form takes
\* the second quadrature quad2.
GammaPitchSum(x, I) ==
    FSum(Arr([i \in DOMAIN x["pitch_inv"] |->
             FMul(FSum(I[i]), x["pitch_inv weight"][i])]))

gamma_kernel(x, quad, quad2, num_well, batch) ==
    GammaPitchSum(x, integrate("dI", x["pitch_inv"], x, "|B|",
                               points(x["|B|"], x["pitch_inv"], num_well), batch))

\* A callable is the record of its name and of the variables it closes
\* over: the kernels eps_32 (closed over quad, num_well, batch), Gamma_c
\* and Gamma_c Velasco, and foreach_rho of _compute.
Kernel(name, quad, quad2, num_well, batch) ==
    [name |-> name, quad |-> quad, quad2 |-> quad2, num_well |-> num_well,
     batch |-> batch]

\* desc.backend.imap(f, d): f applied to the slices of the arrays of dict d
\* along their leading axis, one slice after the other
RECURSIVE call(_, _)
imap(f, d) ==
    LET n == Len(d[CHOOSE k \in DOMAIN d : TRUE])
    IN  Arr([i \in 1..n |-> call(f, Dict([k \in DOMAIN d |-> d[k][i]]))])

\* foreach_rho handing every surface the nodes of the first one
call_first_surface_nodes(f, x) ==
    CASE f.name = "foreach_rho" ->
             imap(f.fun,
                  Put(Put(x, "pitch_inv",
                          Arr([r \in DOMAIN f.pitch_inv |-> f.pitch_inv[1]])),
                      "pitch_inv weight",
                      Arr([r \in DOMAIN f.pitch_inv_weight |->
                              f.pitch_inv_weight[1]])))
      [] f.name = "eps_32" -> eps_32(x, f.quad, f.num_well, f.batch)
      [] OTHER -> gamma_kernel(x, f.quad, f.quad2, f.num_well, f.batch)

\* f(x): foreach_rho of _compute, or a kernel
call(f, x) ==
    CASE f.name = "foreach_rho" ->
             imap(f.fun, Put(Put(x, "pitch_inv", f.pitch_inv),
                             "pitch_inv weight", f.pitch_inv_weight))
      [] f.name = "eps_32" -> eps_32(x, f.quad, f.num_well, f.batch)
      [] OTHER -> gamma_kernel(x, f.quad, f.quad2, f.num_well, f.batch)

\* _compute(fun, fun_data, data, grid, num_pitch, simp, reduce)
\* (the part of _compute after the pitch quadrature q is built)
compute_with(fun, fun_data, d, g, reduce, q) ==
    IF q.err # "none" THEN [err |-> q.err]
    ELSE
    LET foreach_rho == [name |-> "foreach_rho", fun |-> fun,
                        pitch_inv |-> q.pitch_inv,
                        pitch_inv_weight |-> q.weight]
        req == {required_names[i] : i \in DOMAIN required_names}
        with_required(fd) == Dict([k \in DOMAIN fd |-> reshape_data(g, fd[k])])
        finish(out) == IF reduce THEN expand(g, alpha_mean(out)) ELSE out
    IN  [err |-> "none",
         out |-> finish(imap(foreach_rho,
                     with_required([k \in (DOMAIN fun_data) \cup req |->
                                       IF k \in req THEN d[k] ELSE fun_data[k]])))]

\* the extrema handed over in the wrong order
pitch_inv_quad_swapped(d, g, num_pitch, simp) ==
    get_pitch_inv_quad(compress(g, d["max_tz |B|"]),
                       compress(g, d["min_tz |B|"]), num_pitch, simp)

\* (the pitch quadrature _compute builds first)
pitch_inv_quad(d, g, num_pitch, simp) ==
    get_pitch_inv_quad(compress(g, d["min_tz |B|"]),
                       compress(g, d["max_tz |B|"]), num_pitch, simp)

compute(fun, fun_data, d, g, num_pitch, simp, reduce) ==
    compute_with(fun, fun_data, d, g, reduce,
                 pitch_inv_quad(d, g, num_pitch, simp))

\* pi / (8 * 2**0.5)
Pi == Fin((314 * Scale) \div 100)
Prefactor == FDiv(Pi, FMul(Fin(8 * Scale), FSqrt(Fin(2 * Scale))))

\* _epsilon_32(params, transforms, profiles, data, **kwargs): the data dict
\* with "effective ripple 3/2", or the error raised
FSquare(a) == FMul(a, a)

\* the error of _compute swallowed and NaN stored
epsilon_32_store_silent(d, B0, c) ==
    [err |-> "none",
     data |-> Put(d, "effective ripple 3/2",
         Arr([n \in DOMAIN B0 |->
             IF c.err # "none" THEN NaN
             ELSE FDiv(FMul(FMul(Prefactor,
                                 FSquare(FDiv(FMul(B0[n], d["R0"]),
                                              d["<|grad(rho)|>"][n]))),
                            c.out[n]),
                       d["fieldline length"][n])]))]

\* (the assignment of data["effective ripple 3/2"], given what _compute
\* returned)
epsilon_32_store(d, B0, c) ==
    IF c.err # "none" THEN [err |-> c.err, data |-> d]
    ELSE [err |-> "none",
          data |-> Put(d, "effective ripple 3/2",
              Arr([n \in DOMAIN B0 |->
                  FDiv(FMul(FMul(Prefactor,
                                 FSquare(FDiv(FMul(B0[n], d["R0"]),
                                              d["<|grad(rho)|>"][n]))),
                            c.out[n]),
                       d["fieldline length"][n])]))]

epsilon_32(d, g, kw) ==
    LET quad == IF "quad" \in DOMAIN kw THEN kw["quad"]
                ELSE chebgauss2(Get(kw, "num_quad", DefaultNumQuad))
        num_well == Get(kw, "num_well", None)
        batch == Get(kw, "batch", TRUE)
    IN  epsilon_32_store(d, d["max_tz |B|"],
            compute(Kernel("eps_32", quad, None, num_well, batch),
                    [k \in {"|grad(rho)|*kappa_g"} |->
                        ArrMul(d["|grad(rho)|"], d["kappa_g"])],
                    d, g, Get(kw, "num_pitch", DefaultNumPitch), FALSE, TRUE))

\* the exponent inverted
effective_ripple_inverted(d) ==
    Put(d, "effective ripple",
        Arr([n \in DOMAIN d["effective ripple 3/2"] |->
                FPow32(d["effective ripple 3/2"][n])]))

\* _effective_ripple(params, transforms, profiles, data)
effective_ripple(d) ==
    Put(d, "effective ripple",
        Arr([n \in DOMAIN d["effective ripple 3/2"] |->
                FPow23(d["effective ripple 3/2"][n])]))

(***************************************************************************)
(* The compute framework (desc.compute.utils._compute, get_transforms,     *)
(* get_profiles, LinearGrid, Equilibrium._get_rtz_grid), modelled from the *)
(* specification: it supplies the named quantities of the equilibrium on a *)
(* grid and runs the registered functions in dependency order.             *)
(***************************************************************************)
SeqRange(q) == {q[i] : i \in DOMAIN q}

\* A quantity that is a flux function, on the surface of label s
SurfaceQuantity(p, k, s) ==
    CASE k = "min_tz |B|" -> min_tz_B(p, s)
      [] k = "max_tz |B|" -> max_tz_B(p, s)
      [] k = "<|grad(rho)|>" -> avg_grad_rho(p, s)
      [] k = "iota" -> iota(p, s)
      [] OTHER -> Zero

\* A quantity on the node n of a (rho, alpha, zeta) grid
NodeQuantity(p, k, g, n) ==
    LET s == g.rho[NodeRho(g, n)]
        a == g.alpha[NodeAlpha(g, n)]
        z == NodeZeta(g, n)
    IN  CASE k = "|B|" -> ModB(p, s, a, z)
          [] k = "B^zeta" -> B_sup_zeta(p, s, a, z)
          [] k = "kappa_g" -> kappa_g(p, s, a, z)
          [] k = "|grad(rho)|" -> grad_rho(p, s, a, z)
          [] OTHER -> SurfaceQuantity(p, k, s)

\* LinearGrid(rho=rho, M, N, NFP, sym): the surfaces rho with angular nodes
LinearGrid(rho) == Grid(rho, <<1, 2>>, <<1>>)

\* compute_fun(eq, keys, params, transforms, profiles) on a grid
compute_fun(p, keys, g) ==
    Dict([k \in SeqRange(keys) |->
        IF k = "R0" THEN R0(p)
        ELSE Arr([n \in 1..num_nodes(g) |-> NodeQuantity(p, k, g, n)])])

\* The quantities the registered functions of this model read of the
\* equilibrium on the (rho, alpha, zeta) grid
FieldKeys == {"|B|", "B^zeta", "kappa_g", "|grad(rho)|"}

\* compute_fun(eq, name, params, transforms, profiles, data=data, ...):
\* the dependencies missing of data are computed on the grid
with_dependencies(p, d, g) ==
    Dict([k \in (DOMAIN d) \cup FieldKeys |->
        IF k \in DOMAIN d THEN d[k]
        ELSE Arr([n \in 1..num_nodes(g) |-> NodeQuantity(p, k, g, n)])])

\* The registered functions a quantity needs, in dependency order
Pipeline(key) ==
    IF key = "effective ripple"
    THEN <<"fieldline length", "effective ripple 3/2", "effective ripple", "return">>
    ELSE <<key, "return">>

NextStage(key, stage) ==
    LET q == Pipeline(key)
        i == CHOOSE j \in DOMAIN q : q[j] = stage
    IN  q[i + 1]

Gamma_c_store(d, key, c) ==
    IF c.err # "none" THEN [err |-> c.err, data |-> d]
    ELSE [err |-> "none", data |-> Put(d, key, c.out)]

Gamma_c(d, g, kw, key) ==
    LET quad == IF "quad" \in DOMAIN kw THEN kw["quad"]
                ELSE chebgauss2(Get(kw, "num_quad", DefaultNumQuad))
        quad2 == IF key # "Gamma_c" THEN None
                 ELSE IF "quad2" \in DOMAIN kw THEN kw["quad2"]
                 ELSE chebgauss2(Get(kw, "num_quad", DefaultNumQuad))
        num_well == Get(kw, "num_well", None)
        batch == Get(kw, "batch", TRUE)
    IN  Gamma_c_store(d, key,
            compute(Kernel(key, quad, quad2, num_well, batch),
                    [k \in {} |-> Zero], d, g,
                    Get(kw, "num_pitch", 2 * DefaultNumQuad), TRUE, TRUE))

(***************************************************************************)
(* src/desc/objectives/_neoclassical.py                                    *)
(***************************************************************************)
\* np.linspace(0, 2 * np.pi * num_transit, Y_B * num_transit): the knots
ZetaKnots == Arr([z \in 1..NumZeta |-> Fin((z - 1) * Scale)])

\* EffectiveRipple.__init__
EffectiveRipple_init(rho, alpha, batch, num_quad, num_pitch, num_well) ==
    [cls |-> "EffectiveRipple",
     dim_f |-> Len(rho),
     keys_1dr |-> <<"iota", "iota_r", "<|grad(rho)|>", "min_tz |B|",
                    "max_tz |B|", "R0">>,
     constants |-> [k \in {"quad_weights", "rho", "alpha", "zeta", "quad"} |->
                      CASE k = "quad_weights" -> One
                        [] k = "rho" -> rho
                        [] k = "alpha" -> alpha
                        [] k = "zeta" -> ZetaKnots
                        [] OTHER -> chebgauss2(num_quad)],
     hyperparameters |-> [k \in {"num_pitch", "batch", "num_well"} |->
                      CASE k = "num_pitch" -> num_pitch
                        [] k = "batch" -> batch
                        [] OTHER -> num_well],
     key |-> "effective ripple",
     grid_1dr |-> Grid(<<>>, <<>>, <<>>),
     built |-> FALSE]

\* GammaC.__init__
GammaC_init(rho, alpha, batch, num_quad, num_pitch, num_well, Nemov) ==
    [cls |-> "GammaC",
     dim_f |-> Len(rho),
     keys_1dr |-> <<"iota", "iota_r", "min_tz |B|", "max_tz |B|">>,
     constants |-> [k \in {"quad_weights", "rho", "alpha", "zeta"} |->
                      CASE k = "quad_weights" -> One
                        [] k = "rho" -> rho
                        [] k = "alpha" -> alpha
                        [] OTHER -> ZetaKnots],
     hyperparameters |-> [k \in {"num_quad", "num_pitch", "batch", "num_well"} |->
                      CASE k = "num_quad" -> num_quad
                        [] k = "num_pitch" -> num_pitch
                        [] k = "batch" -> batch
                        [] OTHER -> num_well],
     key |-> IF Nemov THEN "Gamma_c" ELSE "Gamma_c Velasco",
     grid_1dr |-> Grid(<<>>, <<>>, <<>>),
     built |-> FALSE]

\* get_transforms / get_profiles: what was precomputed, kept as a token
Precomputed(keys, g) == [keys |-> keys, grid |-> g]

\* EffectiveRipple.build: the objective after it
EffectiveRipple_build(o) ==
    LET g1 == LinearGrid(o.constants["rho"])
    IN  [o EXCEPT !.grid_1dr = g1,
                  !.constants =
                      Put(Put(@, "transforms_1dr", Precomputed(o.keys_1dr, g1)),
                          "profiles",
                          Precomputed(o.keys_1dr \o <<"effective ripple">>, g1)),
                  !.built = TRUE]

\* GammaC.build reading num_quad and leaving it among the hyperparameters
GammaC_build_keeps_num_quad(o) ==
    LET g1 == LinearGrid(o.constants["rho"])
        num_quad == o.hyperparameters["num_quad"]
        c1 == Put(o.constants, "quad", [rule |-> "leggauss_sin", n |-> num_quad])
        c2 == IF o.key = "Gamma_c" THEN Put(c1, "quad2", chebgauss2(num_quad))
              ELSE c1
    IN  [err |-> "none",
         obj |-> [o EXCEPT
              !.grid_1dr = g1,
              !.constants =
                  Put(Put(c2, "transforms_1dr", Precomputed(o.keys_1dr, g1)),
                      "profiles", Precomputed(o.keys_1dr \o <<o.key>>, g1)),
              !.built = TRUE]]

\* GammaC.build: the objective after it and the error raised, if any;
\* hyperparameters.pop("num_quad") raises KeyError when the key is gone
GammaC_build(o) ==
    LET g1 == LinearGrid(o.constants["rho"])
    IN  IF "num_quad" \notin DOMAIN o.hyperparameters
        THEN [err |-> "KeyError", obj |-> [o EXCEPT !.grid_1dr = g1]]
        ELSE
        LET num_quad == o.hyperparameters["num_quad"]
            c1 == Put(o.constants, "quad", [rule |-> "leggauss_sin", n |-> num_quad])
            c2 == IF o.key = "Gamma_c" THEN Put(c1, "quad2", chebgauss2(num_quad))
                  ELSE c1
        IN  [err |-> "none",
             obj |-> [o EXCEPT
                  !.grid_1dr = g1,
                  !.hyperparameters = Pop(@, "num_quad"),
                  !.constants =
                      Put(Put(c2, "transforms_1dr", Precomputed(o.keys_1dr, g1)),
                          "profiles", Precomputed(o.keys_1dr \o <<o.key>>, g1)),
                  !.built = TRUE]]

\* compute, up to its second call of compute_fun: the grid, the data dict
\* and the keyword arguments that call is given
compute_grid(o) ==
    Grid(o.constants["rho"], o.constants["alpha"], o.constants["zeta"])

compute_data(o, p) ==
    LET d1 == compute_fun(p, o.keys_1dr, o.grid_1dr)
        g == compute_grid(o)
    IN  Dict([k \in SeqRange(o.keys_1dr) |->
            IF o.cls = "EffectiveRipple" /\ k = "R0" THEN d1[k]
            ELSE copy_data_from_other(g, d1[k], o.grid_1dr)])

\* the keys compute looks up in constants
compute_constants_read(o) ==
    {"transforms_1dr", "profiles", "rho", "alpha", "zeta", "quad"}
        \cup (IF o.cls = "GammaC" /\ o.key = "Gamma_c" THEN {"quad2"} ELSE {})

compute_kwargs(o) ==
    LET q == IF o.cls = "GammaC" /\ o.key = "Gamma_c"
             THEN {"quad", "quad2"} ELSE {"quad"}
    IN  Dict([k \in q \cup DOMAIN o.hyperparameters |->
            IF k \in q THEN o.constants[k] ELSE o.hyperparameters[k]])

\* the surfaces taken in increasing order of their label
compute_return_sorted(o, g, d) ==
    LET v == compress(g, d[o.key])
        rank(i) == 1 + Cardinality({j \in DOMAIN g.rho : g.rho[j] < g.rho[i]})
    IN  Arr([k \in DOMAIN v |-> v[CHOOSE i \in DOMAIN v : rank(i) = k]])

\* compute's return value: grid.compress(data[key])
compute_return(o, g, d) == compress(g, d[o.key])

\* a hyperparameter popped by the call
compute_self_pops(o) == [o EXCEPT !.hyperparameters = Pop(@, "num_well")]

\* The objective as a compute call leaves it: compute reads self._constants
\* (through the constants argument) and unpacks self._hyperparameters into
\* keyword arguments, and assigns to no attribute
compute_self(o) == o


(***************************************************************************)
(* The state machine: an objective is constructed (Init), built, and its   *)
(* compute is called; a compute call runs the registered functions of its  *)
(* quantity one after the other and returns.                               *)
(***************************************************************************)
RhoLists ==
    {q \in UNION {[1..n -> 1..MaxRho] : n \in 1..MaxRho} :
        \A i, j \in DOMAIN q : i # j => q[i] # q[j]}
Alphas == [a \in 1..NumAlpha |-> a]
NumWellChoices == {None} \cup {Some(k) : k \in 1..MaxNumWell}
Classes == {"EffectiveRipple", "GammaC Nemov", "GammaC Velasco"}
EmptyDict == [k \in {} |-> Zero]

Init ==
    /\ \E c \in Classes, rho \in RhoLists, num_pitch \in 1..MaxNumPitch,
          num_well \in NumWellChoices, batch \in BOOLEAN :
          obj = IF c = "EffectiveRipple"
                THEN EffectiveRipple_init(rho, Alphas, batch, DefaultNumQuad,
                                          num_pitch, num_well)
                ELSE GammaC_init(rho, Alphas, batch, DefaultNumQuad, num_pitch,
                                 num_well, c = "GammaC Nemov")
    /\ pc = "idle"
    /\ params = [amp |-> 0, shape |-> "flat"]
    /\ grid = Grid(<<>>, <<>>, <<>>)
    /\ data = EmptyDict
    /\ kwargs = EmptyDict
    /\ result = <<>>
    /\ err = "none"
    /\ first = <<>>
    /\ calls = 0

\* EffectiveRipple.build
BuildEffectiveRipple ==
    /\ pc = "idle" /\ obj.cls = "EffectiveRipple"
    /\ obj' = EffectiveRipple_build(obj)
    /\ err' = "none"
    /\ UNCHANGED <<pc, params, grid, data, kwargs, result, first, calls>>

\* GammaC.build
BuildGammaC ==
    /\ pc = "idle" /\ obj.cls = "GammaC"
    /\ \E b \in {GammaC_build(obj)} : obj' = b.obj /\ err' = b.err
    /\ UNCHANGED <<pc, params, grid, data, kwargs, result, first, calls>>

\* EffectiveRipple.compute(params) and GammaC.compute(params), up to the
\* call of the framework that runs the registered functions
ComputeCall(p) ==
    /\ pc = "idle" /\ calls < MaxCalls
    /\ calls' = calls + 1
    /\ params' = p
    /\ IF ~(compute_constants_read(obj) \subseteq DOMAIN obj.constants)
       THEN /\ err' = "KeyError"
            /\ result' = <<>>
            /\ UNCHANGED <<pc, grid, data, kwargs>>
       ELSE /\ grid' = compute_grid(obj)
            /\ data' = with_dependencies(p, compute_data(obj, p), compute_grid(obj))
            /\ kwargs' = compute_kwargs(obj)
            /\ pc' = Pipeline(obj.key)[1]
            /\ err' = "none"
            /\ UNCHANGED result
    /\ obj' = compute_self(obj)
    /\ UNCHANGED first

Raise(e) ==
    /\ err' = e
    /\ result' = <<>>
    /\ pc' = "idle"
    /\ first' = IF first = <<>>
                THEN <<[params |-> params, result |-> <<>>, err |-> e]>>
                ELSE first
    /\ UNCHANGED <<obj, params, grid, data, kwargs, calls>>

\* the registered function _fieldline_length
FieldlineLength ==
    /\ pc = "fieldline length"
    /\ data' = fieldline_length(data, grid)
    /\ pc' = NextStage(obj.key, pc)
    /\ UNCHANGED <<obj, params, grid, kwargs, result, err, first, calls>>

\* the registered function _epsilon_32
Epsilon32 ==
    /\ pc = "effective ripple 3/2"
    /\ \E r \in {epsilon_32(data, grid, kwargs)} :
           IF r.err # "none" THEN Raise(r.err)
           ELSE /\ data' = r.data
                /\ pc' = NextStage(obj.key, pc)
                /\ UNCHANGED <<obj, params, grid, kwargs, result, err, first, calls>>

\* the registered function _effective_ripple
EffectiveRipple ==
    /\ pc = "effective ripple"
    /\ data' = effective_ripple(data)
    /\ pc' = NextStage(obj.key, pc)
    /\ UNCHANGED <<obj, params, grid, kwargs, result, err, first, calls>>

\* the registered functions of "Gamma_c" and "Gamma_c Velasco"
GammaC ==
    /\ pc \in {"Gamma_c", "Gamma_c Velasco"}
    /\ \E r \in {Gamma_c(data, grid, kwargs, pc)} :
           IF r.err # "none" THEN Raise(r.err)
           ELSE /\ data' = r.data
                /\ pc' = NextStage(obj.key, pc)
                /\ UNCHANGED <<obj, params, grid, kwargs, result, err, first, calls>>

\* the end of compute: return grid.compress(data[...])
ComputeReturn ==
    /\ pc = "return"
    /\ result' = compute_return(obj, grid, data)
    /\ first' = IF first = <<>>
                THEN <<[params |-> params, result |-> result', err |-> "none"]>>
                ELSE first
    /\ pc' = "idle"
    /\ UNCHANGED <<obj, params, grid, data, kwargs, err, calls>>

Next ==
    \/ BuildEffectiveRipple
    \/ BuildGammaC
    \/ \E p \in ParamSet : ComputeCall(p)
    \/ FieldlineLength
    \/ Epsilon32
    \/ EffectiveRipple
    \/ GammaC
    \/ ComputeReturn

Spec == Init /\ [][Next]_vars

(***************************************************************************)
(* Properties.                                                             *)
(***************************************************************************)
\* A compute call of a built objective has completed (returned or raised):
\* params, grid, data and result are those of the last call
Completed == pc = "idle" /\ first # <<>>
Returned == Completed /\ result # <<>>

\* y is x ** (2 / 3) in the model's fixed-point arithmetic: y = c * c with c
\* the cube root of x rounded down to the resolution, stated without the
\* bisection
IsCubeRoot(x, c) ==
    /\ c * c * c <= x * Scale * Scale
    /\ (c + 1) * (c + 1) * (c + 1) > x * Scale * Scale
IsPow23(x, y) ==
    IF ~IsFin(x) THEN y = x
    ELSE IF x[2] < 0 THEN y = NaN
    ELSE IsFin(y) /\ \E c \in 0..(x[2] + Scale) :
             IsCubeRoot(x[2], c) /\ y[2] = (c * c) \div Scale

\* C1: _effective_ripple stores as "effective ripple", at every node, the
\* stored "effective ripple 3/2" raised to the power 2/3, and leaves
\* "effective ripple 3/2" and every other entry of the data dict as it was.
C1_EffectiveRipplePower ==
    [][pc = "effective ripple" =>
        /\ DOMAIN data' = (DOMAIN data) \cup {"effective ripple"}
        /\ \A k \in DOMAIN data : data'[k] = data[k]
        /\ DOMAIN data'["effective ripple"] = 1..num_nodes(grid)
        /\ \A n \in 1..num_nodes(grid) :
               IsPow23(data["effective ripple 3/2"][n],
                       data'["effective ripple"][n])]_vars

\* a state in which _effective_ripple has run on a surface whose ripple is
\* neither zero nor one
C1_Witness ==
    /\ pc = "return" /\ obj.cls = "EffectiveRipple"
    /\ \E n \in 1..num_nodes(grid) :
           /\ data["effective ripple 3/2"][n][2] > 0
           /\ data["effective ripple"][n] # data["effective ripple 3/2"][n]

\* Surface r (an index into grid.rho) of the running or last call
OnSurface(r) == {n \in 1..num_nodes(grid) : NodeRho(grid, n) = r}
SurfaceMin(r) == data["min_tz |B|"][Node(grid, 1, r, 1)]
SurfaceMax(r) == data["max_tz |B|"][Node(grid, 1, r, 1)]
Degenerate(r) == SurfaceMax(r)[2] <= SurfaceMin(r)[2]
\* the field strength is the same at every sample of every field line of r
\* and equal to both extrema of the surface
UniformSurface(r) ==
    \A n \in OnSurface(r) :
        data["|B|"][n] = SurfaceMin(r) /\ data["|B|"][n] = SurfaceMax(r)
\* the field strength is the same at every sample of every field line of r,
\* at the surface's maximum: no pitch node has a well
NoWellSurface(r) == \A n \in OnSurface(r) : data["|B|"][n] = SurfaceMax(r)

KernelStages == {"effective ripple 3/2", "Gamma_c", "Gamma_c Velasco"}

StageSimp == obj.cls = "GammaC"
AlongLine(f, a, r) == Arr([z \in 1..num_zeta(grid) |-> f[Node(grid, a, r, z)]])
FieldLine(a, r) ==
    [k \in {"|B|", "B^zeta", "|grad(rho)|*kappa_g", "pitch_inv",
            "pitch_inv weight"} |->
        CASE k = "|B|" -> AlongLine(data["|B|"], a, r)
          [] k = "B^zeta" -> AlongLine(data["B^zeta"], a, r)
          [] k = "|grad(rho)|*kappa_g" ->
                 Arr([z \in 1..num_zeta(grid) |->
                     FMul(data["|grad(rho)|"][Node(grid, a, r, z)],
                          data["kappa_g"][Node(grid, a, r, z)])])
          [] k = "pitch_inv" ->
                 Arr([i \in 1..kwargs["num_pitch"] |->
                     PitchNode(SurfaceMin(r), SurfaceMax(r),
                               kwargs["num_pitch"], i, StageSimp)])
          [] OTHER ->
                 Arr([i \in 1..kwargs["num_pitch"] |->
                     PitchWeight(SurfaceMin(r), SurfaceMax(r),
                                 kwargs["num_pitch"], i, StageSimp)])]
LineHI(a, r) ==
    BounceHI(FieldLine(a, r), kwargs["quad"], kwargs["num_well"], kwargs["batch"])
Lines == (1..num_alpha(grid)) \X (1..num_rho(grid))
PitchNodes == 1..kwargs["num_pitch"]

\* _epsilon_32 has stored its result in the running call
RippleStored == pc = "effective ripple"

\* the sum over the wells with I # 0 of H^2 / I
NonzeroWellSum(H, I) ==
    FSum(Arr([j \in DOMAIN H |->
        IF I[j] = Zero THEN Zero ELSE FDiv(FMul(H[j], H[j]), I[j])]))

\* C4: in eps_32 a well whose integral I is zero, padding included, adds
\* exactly zero to the sum over wells of H^2 / I; the sum, the value of
\* every field line and the stored "effective ripple 3/2" are finite.
ZeroWellsAddZero(b) ==
    \A i \in PitchNodes :
        /\ WellSum(b.H[i], b.I[i]) = NonzeroWellSum(b.H[i], b.I[i])
        /\ IsFin(WellSum(b.H[i], b.I[i]))

C4_ZeroMeasureWellAddsZero ==
    RippleStored =>
        /\ \A l \in Lines : ZeroWellsAddZero(LineHI(l[1], l[2]))
        /\ \A l \in Lines :
               IsFin(eps_32(FieldLine(l[1], l[2]), kwargs["quad"],
                            kwargs["num_well"], kwargs["batch"]))
        /\ \A n \in 1..num_nodes(grid) : IsFin(data["effective ripple 3/2"][n])

\* _epsilon_32 has stored a nonzero ripple and some pitch node of some field
\* line has a well with I # 0 next to a well of zero width (I = 0) that is
\* not padding
ZeroWidthWellBesideWell(x, b) ==
    \E i \in PitchNodes :
        /\ \E j \in DOMAIN b.I[i] : b.I[i][j] # Zero
        /\ \E j \in 1..Len(AllWells(x["|B|"], x["pitch_inv"][i])) :
               j \in DOMAIN b.I[i] /\ b.I[i][j] = Zero

C4_Witness ==
    /\ RippleStored
    /\ \E n \in 1..num_nodes(grid) : data["effective ripple 3/2"][n] # Zero
    /\ \E l \in Lines :
           ZeroWidthWellBesideWell(FieldLine(l[1], l[2]), LineHI(l[1], l[2]))

\* The kernel of the running call on one field line
KernelValue(a, r) ==
    IF obj.cls = "EffectiveRipple"
    THEN eps_32(FieldLine(a, r), kwargs["quad"], kwargs["num_well"],
                kwargs["batch"])
    ELSE gamma_kernel(FieldLine(a, r), kwargs["quad"], Get(kwargs, "quad2", None),
                      kwargs["num_well"], kwargs["batch"])

KernelValues ==
    Arr([a \in 1..num_alpha(grid) |->
        Arr([r \in 1..num_rho(grid) |-> KernelValue(a, r)])])

\* At every node the unweighted mean, over the field lines of the node's own
\* surface, of the per-field-line values v[a][r]
MeanOverAlpha(v, r) ==
    FDiv(FSum(Arr([a \in 1..num_alpha(grid) |-> v[a][r]])),
         Fin(num_alpha(grid) * Scale))
SurfaceMeans(v) == Arr([r \in 1..num_rho(grid) |-> MeanOverAlpha(v, r)])
AtNodes(m) == Arr([n \in 1..num_nodes(grid) |-> m[NodeRho(grid, n)]])

\* The data dict after the kernel's registered function, had _compute
\* returned the array out
StoredWith(out) ==
    IF obj.cls = "EffectiveRipple"
    THEN epsilon_32_store(data, data["max_tz |B|"],
                          [err |-> "none", out |-> out]).data
    ELSE Gamma_c_store(data, pc, [err |-> "none", out |-> out]).data

\* C5: what _compute returns with reduce=True is, at every grid node, the
\* unweighted arithmetic mean over the field lines of the node's own flux
\* surface of the kernel's per-field-line values.
C5_UnweightedAlphaMean ==
    [][(pc \in KernelStages /\ pc' # "idle") =>
        data' = StoredWith(AtNodes(SurfaceMeans(KernelValues)))]_vars

\* a kernel has run on two surfaces whose means differ, the field lines of
\* one surface giving different values
C5_Witness ==
    /\ RippleStored
    /\ num_rho(grid) = MaxRho
    /\ MeanOverAlpha(KernelValues, 1) # MeanOverAlpha(KernelValues, num_rho(grid))
    /\ \E r \in 1..num_rho(grid) :
           /\ KernelValue(1, r) # KernelValue(num_alpha(grid), r)
           /\ data["effective ripple 3/2"][Node(grid, 1, r, 1)] # Zero

\* The built objective o with the single target surface of label s
OnSurfaceAlone(o, s) ==
    [o EXCEPT !.constants = Put(@, "rho", <<s>>),
              !.dim_f = 1,
              !.grid_1dr = LinearGrid(<<s>>)]

\* What a compute call of the built objective o returns for params p, when it
\* raises nothing
Returns(o, p) ==
    LET g == compute_grid(o)
        d == with_dependencies(p, compute_data(o, p), g)
    IN  IF o.cls = "EffectiveRipple"
        THEN compute_return(o, g,
                 effective_ripple(
                     epsilon_32(fieldline_length(d, g), g, compute_kwargs(o)).data))
        ELSE compute_return(o, g, Gamma_c(d, g, compute_kwargs(o), o.key).data)

C7_BatchChangesNothing ==
    [][pc = "effective ripple 3/2" =>
        /\ epsilon_32(data, grid, Put(kwargs, "batch", ~kwargs["batch"])).err
               = (IF pc' = "idle" THEN err' ELSE "none")
        /\ pc' # "idle" =>
               data' = epsilon_32(data, grid,
                                  Put(kwargs, "batch", ~kwargs["batch"])).data]_vars

\* _epsilon_32 has stored a nonzero ripple computed by the sweep, on field
\* lines with more than one well and with two pitch nodes
C7_Witness ==
    /\ RippleStored /\ kwargs["batch"] = FALSE /\ kwargs["num_pitch"] > 1
    /\ \E n \in 1..num_nodes(grid) : data["effective ripple 3/2"][n] # Zero
    /\ \E l \in Lines : \E i \in PitchNodes :
           Len(AllWells(FieldLine(l[1], l[2])["|B|"],
                        FieldLine(l[1], l[2])["pitch_inv"][i])) > 1

\* The sum of safediv(H^2, I) over the first wells of the profile, at most
\* cap of them (all of them with None), at pitch node i of field line x
FirstWells(x, i, cap) ==
    LET W == AllWells(x["|B|"], x["pitch_inv"][i])
    IN  IF cap = None THEN W ELSE SubSeq(W, 1, Min2(Len(W), cap[1]))
WellTerm(x, i, w) ==
    safediv(FSquare(WellIntegral("dH", x, "|grad(rho)|*kappa_g",
                                 x["pitch_inv"][i], w.z1, w.z2)),
            WellIntegral("dI", x, "|grad(rho)|*kappa_g",
                         x["pitch_inv"][i], w.z1, w.z2))
SumOverWells(x, i, W) == FSum(Arr([j \in 1..Len(W) |-> WellTerm(x, i, W[j])]))
FirstWellSum(x, i, cap) == SumOverWells(x, i, FirstWells(x, i, cap))
KeepsFirstWells(x, b) ==
    \A i \in PitchNodes :
        WellSum(b.H[i], b.I[i]) = FirstWellSum(x, i, kwargs["num_well"])

\* C8: on a grid without degenerate surface _epsilon_32 raises nothing,
\* however many wells the profiles have; at every pitch node of every field
\* line the kernel sums over the first num_well wells of the profile, in
\* profile order, and over all the wells when num_well is None.
C8_WellsBeyondCapDropped ==
    [][(pc = "effective ripple 3/2"
            /\ \A r \in 1..num_rho(grid) : ~Degenerate(r)) =>
        /\ err' = "none"
        /\ pc' = "effective ripple"
        /\ \A l \in Lines :
               KeepsFirstWells(FieldLine(l[1], l[2]), LineHI(l[1], l[2]))]_vars

\* _epsilon_32 has stored a ripple with num_well = 1 where a pitch node of a
\* field line has more wells than that and the dropped wells would have
\* changed the sum
C8_Witness ==
    /\ RippleStored /\ kwargs["num_well"] = Some(1)
    /\ \E l \in Lines : \E i \in PitchNodes :
           /\ Len(FirstWells(FieldLine(l[1], l[2]), i, None)) > 1
           /\ FirstWellSum(FieldLine(l[1], l[2]), i, Some(1))
                  # FirstWellSum(FieldLine(l[1], l[2]), i, None)

\* C9: a compute call changes neither the objective (_constants and
\* _hyperparameters included) nor, while it runs, the params it was given;
\* and a call of a built objective ends as the first completed call with the
\* same params ended: the same result, or the same error.
C9_NoStateSharedAcrossCalls ==
    [][/\ (calls' # calls \/ pc # "idle") => obj' = obj
       /\ pc # "idle" => params' = params
       /\ (pc # "idle" /\ pc' = "idle" /\ params = first'[1].params) =>
              (result' = first'[1].result /\ err' = first'[1].err)]_vars

\* a second call with the params of the first has returned a nonzero result
C9_Witness ==
    /\ Returned /\ calls = MaxCalls
    /\ params = first[1].params
    /\ result = first[1].result
    /\ \E i \in 1..Len(result) : result[i] # Zero

\* The kernel's value on a field line with the pitch nodes weighted by F of
\* the inverse-pitch node times the node's quadrature weight
\* pitch ** (-3), pitch the reciprocal of the inverse-pitch node
ClaimedPitchFactor(pitch_inv) == FPowM3(FDiv(One, pitch_inv))
\* the inverse-pitch node to the power -3, that is pitch ** 3
CodePitchFactor(pitch_inv) == FPowM3(pitch_inv)

KernelByPitch(x, b, claimed) ==
    FSum(Arr([i \in PitchNodes |->
        FMul(FMul(WellSum(b.H[i], b.I[i]),
                  IF claimed THEN ClaimedPitchFactor(x["pitch_inv"][i])
                  ELSE CodePitchFactor(x["pitch_inv"][i])),
             x["pitch_inv weight"][i])]))

KernelClaimed ==
    Arr([a \in 1..num_alpha(grid) |-> Arr([r \in 1..num_rho(grid) |->
        KernelByPitch(FieldLine(a, r), LineHI(a, r), TRUE)])])
KernelOfCode ==
    Arr([a \in 1..num_alpha(grid) |-> Arr([r \in 1..num_rho(grid) |->
        KernelByPitch(FieldLine(a, r), LineHI(a, r), FALSE)])])

\* C10 as stated: the value of a field line is the sum over the pitch nodes
\* of the sum over wells of safediv(H^2, I), times pitch^-3 times the node's
\* quadrature weight, pitch being the reciprocal of the inverse-pitch node.
C10_PitchToMinus3 ==
    [][(pc = "effective ripple 3/2" /\ pc' # "idle") =>
        data' = StoredWith(AtNodes(SurfaceMeans(KernelClaimed)))]_vars

\* C10, amended: the value of a field line is the sum over the pitch nodes
\* of the sum over wells of safediv(H^2, I), times the inverse-pitch node to
\* the power -3 (pitch^3, pitch being the variable of the H integrand) times
\* the node's inverse-pitch quadrature weight.
C10_InversePitchToMinus3 ==
    [][(pc = "effective ripple 3/2" /\ pc' # "idle") =>
        data' = StoredWith(AtNodes(SurfaceMeans(KernelOfCode)))]_vars

\* _epsilon_32 has stored a nonzero ripple summed over two pitch nodes
C10_Witness ==
    /\ RippleStored /\ kwargs["num_pitch"] > 1
    /\ \E n \in 1..num_nodes(grid) : data["effective ripple 3/2"][n] # Zero
    /\ KernelOfCode # KernelClaimed

\* The reduction written out, innermost first: over the retained wells of a
\* pitch node, then over the pitch nodes of a field line
WellsThenPitch(x) ==
    FSum(Arr([i \in PitchNodes |->
        FMul(FMul(FirstWellSum(x, i, kwargs["num_well"]),
                  CodePitchFactor(x["pitch_inv"][i])),
             x["pitch_inv weight"][i])]))
NestedReduction ==
    Arr([a \in 1..num_alpha(grid) |-> Arr([r \in 1..num_rho(grid) |->
        WellsThenPitch(FieldLine(a, r))])])

\* two of the wells W of pitch node i add a nonzero term
TwoWellsAdd(x, i, W) ==
    \E j, k \in 1..Len(W) :
        j # k /\ WellTerm(x, i, W[j]) # Zero /\ WellTerm(x, i, W[k]) # Zero

\* The reductions applied in the other order: the term of well slot j at
\* pitch node i averaged over the field lines of surface r first, the means
\* then summed over the pitch nodes with their factors and weights, the sums
\* over the well slots last
SlotTerm(a, r, i, j) ==
    LET W == FirstWells(FieldLine(a, r), i, kwargs["num_well"])
    IN  IF j <= Len(W) THEN WellTerm(FieldLine(a, r), i, W[j]) ELSE Zero
LinesThenPitchThenWells(r) ==
    FSum(Arr([j \in 1..num_zeta(grid) |->
        FSum(Arr([i \in PitchNodes |->
            FMul(FMul(FDiv(FSum(Arr([a \in 1..num_alpha(grid) |->
                                    SlotTerm(a, r, i, j)])),
                           Fin(num_alpha(grid) * Scale)),
                      CodePitchFactor(FieldLine(1, r)["pitch_inv"][i])),
                 FieldLine(1, r)["pitch_inv weight"][i])]))]))

RunningKernel ==
    IF obj.cls = "EffectiveRipple"
    THEN Kernel("eps_32", kwargs["quad"], None, kwargs["num_well"],
                kwargs["batch"])
    ELSE Kernel(obj.key, kwargs["quad"], Get(kwargs, "quad2", None),
                kwargs["num_well"], kwargs["batch"])
RunningFunData ==
    IF obj.cls = "EffectiveRipple"
    THEN [k \in {"|grad(rho)|*kappa_g"} |->
             ArrMul(data["|grad(rho)|"], data["kappa_g"])]
    ELSE EmptyDict

\* the pitch quadrature of the running call and what _compute gives for
\* every field line (reduce=False)
RunningQuad == pitch_inv_quad(data, grid, kwargs["num_pitch"], StageSimp)
PerFieldLine ==
    compute(RunningKernel, RunningFunData, data, grid, kwargs["num_pitch"],
            StageSimp, FALSE)

\* the field line (a, r) with the given nodes and weights attached
LineWith(a, r, nodes, weights) ==
    [FieldLine(a, r) EXCEPT !["pitch_inv"] = nodes,
                            !["pitch_inv weight"] = weights]

\* the data dict of the running call had the equilibrium the shape sh of
\* |B| along its field lines, the extrema of its surfaces unchanged
DataOfShape(sh) ==
    with_dependencies([params EXCEPT !.shape = sh],
                      compute_data(obj, [params EXCEPT !.shape = sh]), grid)

\* the kernel's registered function has stored its result
KernelStored ==
    \/ pc = "effective ripple"
    \/ obj.cls = "GammaC" /\ pc = "return"

\* C12: in _compute the inverse-pitch nodes and weights of a surface are
\* those get_pitch_inv_quad gives for that surface's compressed min_tz |B|
\* and max_tz |B|, num_pitch and simp; an input that differs in the
\* field-line data only has the same nodes and weights; and the value of
\* every field line alpha on surface rho is the kernel's with the nodes and
\* weights of surface rho, never another surface's.
C12_PerSurfacePitchNodes ==
    KernelStored =>
        /\ RunningQuad.err = "none"
        /\ \A r \in 1..num_rho(grid) :
               /\ RunningQuad.pitch_inv[r] = FieldLine(1, r)["pitch_inv"]
               /\ RunningQuad.weight[r] = FieldLine(1, r)["pitch_inv weight"]
        /\ \A sh \in Shapes :
               pitch_inv_quad(DataOfShape(sh), grid, kwargs["num_pitch"],
                              StageSimp) = RunningQuad
        /\ \A l \in Lines :
               PerFieldLine.out[l[1]][l[2]] =
                   call(RunningKernel,
                        LineWith(l[1], l[2], RunningQuad.pitch_inv[l[2]],
                                 RunningQuad.weight[l[2]]))

\* a kernel has run on two surfaces of different nodes, on a field line
\* whose value another surface's nodes would have changed, for an
\* equilibrium whose field-line data another shape would have changed
C12_Witness ==
    /\ KernelStored
    /\ num_rho(grid) = MaxRho
    /\ RunningQuad.pitch_inv[1] # RunningQuad.pitch_inv[MaxRho]
    /\ \E sh \in Shapes : DataOfShape(sh)["|B|"] # data["|B|"]
    /\ \E l \in Lines : \E r \in 1..num_rho(grid) :
           /\ r # l[2]
           /\ PerFieldLine.out[l[1]][l[2]] # Zero
           /\ PerFieldLine.out[l[1]][l[2]] #
                  call(RunningKernel,
                       LineWith(l[1], l[2], RunningQuad.pitch_inv[r],
                                RunningQuad.weight[r]))

\* the closed Simpson quadrature of 1 / B^zeta along the field line (a, r)
LineLength(a, r) ==
    simpson(Arr([z \in 1..num_zeta(grid) |->
                FDiv(One, data["B^zeta"][Node(grid, a, r, z)])]), grid.zeta)
LineLengths ==
    Arr([a \in 1..num_alpha(grid) |->
        Arr([r \in 1..num_rho(grid) |-> LineLength(a, r)])])

C14_BuildReinvocable ==
    [][(BuildGammaC \/ BuildEffectiveRipple) =>
        /\ err' = "none"
        /\ obj'.built
        /\ DOMAIN obj'.hyperparameters = {"num_pitch", "batch", "num_well"}
        /\ "quad" \in DOMAIN obj'.constants
        /\ obj'.key = "Gamma_c" => "quad2" \in DOMAIN obj'.constants
        /\ (obj.cls = "EffectiveRipple" /\ obj.built) =>
               obj'.constants = obj.constants]_vars

\* a built GammaC objective whose build, called again before any compute,
\* has raised KeyError
C14_Witness ==
    /\ obj.cls = "GammaC" /\ obj.built
    /\ calls = 0 /\ pc = "idle"
    /\ err = "KeyError"
    /\ "num_quad" \notin DOMAIN obj.hyperparameters

\* the GammaC objective constructed with the rho, alpha and hyperparameters
\* of obj and the given Nemov, after its build
BuiltGammaC(Nemov) ==
    GammaC_build(GammaC_init(obj.constants["rho"], obj.constants["alpha"],
                             obj.hyperparameters["batch"], DefaultNumQuad,
                             obj.hyperparameters["num_pitch"],
                             obj.hyperparameters["num_well"], Nemov)).obj

\* what build creates in constants
CreatedByBuild(o) ==
    {"quad", "transforms_1dr", "profiles"}
        \cup (IF o.key = "Gamma_c" THEN {"quad2"} ELSE {})
CreatedByInit == {"quad_weights", "rho", "alpha", "zeta"}

\* a compute call of the built GammaC objective starts its registered function
GammaCComputeStarts == obj.cls = "GammaC" /\ obj.built /\ pc = "idle" /\ calls' # calls

\* C15: for GammaC constructed, built and computed, Nemov=True evaluates and
\* compresses "Gamma_c" and passes quad2, Nemov=False evaluates and compresses
\* "Gamma_c Velasco" and neither builds nor passes quad2; compute after build
\* looks up only constants that exist, and num_quad is never passed to the
\* kernel together with quad.
C15_GammaCKeyAndQuadrature ==
    [][/\ GammaCComputeStarts =>
           /\ err' = "none"
           /\ compute_constants_read(obj) \subseteq
                  CreatedByInit \cup CreatedByBuild(obj)
           /\ CreatedByBuild(obj) \subseteq DOMAIN obj.constants
           /\ "quad" \in DOMAIN kwargs' /\ "num_quad" \notin DOMAIN kwargs'
           /\ obj = BuiltGammaC(TRUE) =>
                  /\ pc' = "Gamma_c"
                  /\ "quad2" \in DOMAIN kwargs'
                  /\ kwargs'["quad2"] = chebgauss2(DefaultNumQuad)
           /\ obj = BuiltGammaC(FALSE) =>
                  /\ pc' = "Gamma_c Velasco"
                  /\ "quad2" \notin DOMAIN kwargs'
                  /\ "quad2" \notin DOMAIN obj.constants
           /\ \E Nemov \in BOOLEAN : obj = BuiltGammaC(Nemov)
       /\ (obj.cls = "GammaC" /\ pc = "return") =>
           /\ obj = BuiltGammaC(TRUE) =>
                  result' = compress(grid, data["Gamma_c"])
           /\ obj = BuiltGammaC(FALSE) =>
                  result' = compress(grid, data["Gamma_c Velasco"])]_vars

\* a GammaC objective constructed with Nemov=True has been built and its
\* compute, given quad2, has returned the compressed "Gamma_c", not zero
C15_Witness ==
    /\ Returned /\ obj = BuiltGammaC(TRUE)
    /\ "quad2" \in DOMAIN kwargs /\ "num_quad" \notin DOMAIN kwargs
    /\ result = compress(grid, data["Gamma_c"])
    /\ "Gamma_c Velasco" \notin DOMAIN data
    /\ \E i \in DOMAIN result : result[i] # Zero

====
